---- MODULE Spec2Model ----
(***************************************************************************)
(* A model of scripts/compare-benchmarks.py: the comparison of two         *)
(* benchmark result documents, the markdown report made of it, the         *)
(* duration formatter, and main's sequence of loads, writes and exits.     *)
(*                                                                         *)
(* Representation.                                                         *)
(*  - An optional value is a sequence: <<>> when absent (a key the JSON    *)
(*    object does not carry, Python's None), <<v>> when present.           *)
(*  - A benchmark entry is a record [name, mean_ns], a document a record   *)
(*    [benchmarks, version, timestamp], every field optional.  A mean_ns   *)
(*    that is present is a JSON value [kind, n]: a number n, or a string.  *)
(*  - compare_benchmarks stores in a comparison the entry object itself;   *)
(*    here the reference is the entry's position in its document's list,   *)
(*    so two equal entries stay distinguishable.                           *)
(*  - mean_ns values are taken from MeanValues, chosen so that Python's    *)
(*    float expression ((current - baseline) / baseline) * 100 is exact    *)
(*    and integral (baselines are powers of two): \div is then the true    *)
(*    quotient.                                                            *)
(*  - format_duration takes the nanosecond count as two limbs,             *)
(*    ns = hi * 10^6 + lo, since 3_000_000_000 exceeds TLC's 32-bit        *)
(*    integers.                                                            *)
(*  - A report is a sequence of lines, a line a sequence of cells: a       *)
(*    table row has four cells (printed "| c1 | c2 | c3 | c4 |"), every    *)
(*    other line has one.  The emoji of the source's literals are written  *)
(*    as bracketed names.  The file's non-ASCII literals are stored as     *)
(*    UTF-8 text put through a single-byte code page; the micro sign is    *)
(*    written here as the character those bytes stand for.                 *)
(***************************************************************************)
EXTENDS Integers, Sequences, FiniteSets, TLC

VARIABLES
    pc,                 \* position in main, or in the pipeline / formatter run
    baseline_file,      \* what is stored at args.baseline
    current_file,       \* what is stored at args.current
    baseline,           \* main's local: the loaded baseline document
    current,            \* main's local: the loaded current document
    threshold,          \* args.threshold
    fail_on_regression, \* args.fail_on_regression
    comparisons,        \* result of compare_benchmarks
    report,             \* result of generate_markdown
    output_file,        \* None: never opened; <<lines>>: its content
    stdout,             \* lines printed
    r,                  \* index of main's loop over regressions
    exit_code,          \* None while running
    ns,                 \* format_duration's argument
    text                \* format_duration's result

vars == <<pc, baseline_file, current_file, baseline, current, threshold,
          fail_on_regression, comparisons, report, output_file, stdout, r,
          exit_code, ns, text>>

None == <<>>
Missing == <<>>
Some(v) == <<v>>

JNumber(n) == [kind |-> "number", n |-> n]
JString == [kind |-> "string", n |-> 0]

(* ------------------------------------------------------------------ *)
(* Bounds and input sets                                              *)
(* ------------------------------------------------------------------ *)

\* Total number of benchmark entries in the two documents of a pipeline run.
MaxEntries == 3

Names == {"B", "a", "ab"}

\* The code points of each name: Python orders str by code point.
CodePoints == [n \in Names |->
                 CASE n = "B" -> <<66>>
                   [] n = "a" -> <<97>>
                   [] n = "ab" -> <<97, 98>>]

MeanValues == {0, 4, 8}

Thresholds == {-50, 10, 50, 100}

Entry(n, m) == [name |-> n, mean_ns |-> m]

Entries == {Entry(Some(n), m) :
              n \in Names, m \in {Some(JNumber(v)) : v \in MeanValues} \cup {Missing}}

Doc(b, v, t) == [benchmarks |-> b, version |-> v, timestamp |-> t]

(* ------------------------------------------------------------------ *)
(* Python helpers                                                     *)
(* ------------------------------------------------------------------ *)

\* dict.get(key, default)
get(d, k, default) == IF d[k] = Missing THEN default ELSE d[k][1]

RECURSIVE seq_lt(_, _)
seq_lt(s, t) ==
    IF s = <<>> THEN t # <<>>
    ELSE IF t = <<>> THEN FALSE
    ELSE IF Head(s) # Head(t) THEN Head(s) < Head(t)
    ELSE seq_lt(Tail(s), Tail(t))

\* str.__lt__
str_lt(a, b) == seq_lt(CodePoints[a], CodePoints[b])

sorted_reversed_pick(S) == CHOOSE x \in S : \A y \in S : y = x \/ str_lt(y, x)

\* the element sorted() puts first
sorted_pick(S) == CHOOSE x \in S : \A y \in S : y = x \/ str_lt(x, y)

RECURSIVE sorted(_)
sorted(S) ==
    IF S = {} THEN <<>>
    ELSE LET m == sorted_pick(S) IN <<m>> \o sorted(S \ {m})

is_number(v) == v.kind = "number"

(* ------------------------------------------------------------------ *)
(* calculate_change                                                   *)
(* ------------------------------------------------------------------ *)

\* TypeError of "current - baseline", reached when "baseline == 0" is false
\* (as it is of a string); b and c are JSON values
calculate_change_raises(b, c) ==
    /\ ~(is_number(b) /\ b.n = 0)
    /\ (~is_number(b) \/ ~is_number(c))

calculate_change(b, c) ==
    IF b = 0 THEN 0 ELSE ((c - b) * 100) \div b

(* ------------------------------------------------------------------ *)
(* format_duration                                                    *)
(* ------------------------------------------------------------------ *)

Nano(hi, lo) == [hi |-> hi, lo |-> lo]

\* "%02d"
two_digits(n) == IF n < 10 THEN "0" \o ToString(n) ELSE ToString(n)

\* f"{x:.2f}" for x = h / 100, h >= 0
fixed2(h) == ToString(h \div 100) \o "." \o two_digits(h % 100)

\* q + rem/d rounded to the nearest integer.  At an exact tie Python rounds
\* the binary quotient, which lies to one side of it; no input used here is
\* a tie (see IsTie).
round_to_nearest(q, rem, d) == IF 2 * rem > d THEN q + 1 ELSE q

\* hundredths of ns/1e9, ns/1e6, ns/1e3
hundredths_s(n) ==
    round_to_nearest(n.hi \div 10, (n.hi % 10) * 1000000 + n.lo, 10000000)
hundredths_ms(n) ==
    round_to_nearest(n.hi * 100 + n.lo \div 10000, n.lo % 10000, 10000)
hundredths_us(n) ==
    round_to_nearest(n.hi * 100000 + n.lo \div 10, n.lo % 10, 10)

IsTie(n) ==
    \/ n.hi >= 1000 /\ 2 * ((n.hi % 10) * 1000000 + n.lo) = 10000000
    \/ n.hi \in 1..999 /\ 2 * (n.lo % 10000) = 10000
    \/ n.hi = 0 /\ n.lo >= 1000 /\ 2 * (n.lo % 10) = 10

format_duration_le(n) ==
    IF n.hi > 1000 THEN fixed2(hundredths_s(n)) \o "s"
    ELSE IF n.hi > 1 THEN fixed2(hundredths_ms(n)) \o "ms"
    ELSE IF n.hi = 0 /\ n.lo > 1000 THEN fixed2(hundredths_us(n)) \o "µs"
    ELSE ToString(n.hi * 1000000 + n.lo) \o "ns"

format_duration(n) ==
    IF n.hi >= 1000 THEN fixed2(hundredths_s(n)) \o "s"
    ELSE IF n.hi >= 1 THEN fixed2(hundredths_ms(n)) \o "ms"
    ELSE IF n.lo >= 1000 THEN fixed2(hundredths_us(n)) \o "µs"
    ELSE ToString(n.lo) \o "ns"

\* TypeError of "ns >= 1e9" on a JSON value that is no number
format_duration_raises(v) == ~is_number(v)

(* ------------------------------------------------------------------ *)
(* compare_benchmarks                                                 *)
(* ------------------------------------------------------------------ *)

\* baseline.get('benchmarks', [])
benchmarks_of(doc) == get(doc, "benchmarks", <<>>)

put(d, k, v) == [x \in (DOMAIN d) \cup {k} |-> IF x = k THEN v ELSE d[x]]

dict_step_first_wins(d, list, i) ==
    IF list[i].name[1] \in DOMAIN d THEN d ELSE put(d, list[i].name[1], Some(i))

\* one step of {b['name']: b for b in list}: the entry at i is stored under
\* its name, replacing what was stored there
dict_step(d, list, i) == put(d, list[i].name[1], Some(i))

RECURSIVE dict_from(_, _, _)
dict_from(d, list, i) ==
    IF i > Len(list) THEN d ELSE dict_from(dict_step(d, list, i), list, i + 1)

\* {b['name']: b for b in doc.get('benchmarks', [])}, as name -> position
by_name(doc) == dict_from(<<>>, benchmarks_of(doc), 1)

\* dict.get(name)
lookup(d, name) == IF name \in DOMAIN d THEN d[name] ELSE None

\* KeyError of b['name']
by_name_raises(doc) ==
    \E i \in 1..Len(benchmarks_of(doc)) : benchmarks_of(doc)[i].name = Missing

\* b.get('mean_ns', 0) of the entry a reference points to, as a JSON value
mean_value(doc, ref) == get(benchmarks_of(doc)[ref[1]], "mean_ns", JNumber(0))

mean_of(doc, ref) == mean_value(doc, ref).n

\* lines 93-98
classify(change, th) ==
    IF change > th THEN "regression"
    ELSE IF change < -th THEN "improvement"
    ELSE "unchanged"

comparison_swapped(name, base, curr, b, c, th) ==
    IF base = None THEN
        [name |-> name, status |-> "removed", baseline |-> None,
         current |-> curr, change_percent |-> 0]
    ELSE IF curr = None THEN
        [name |-> name, status |-> "new", baseline |-> base,
         current |-> None, change_percent |-> 0]
    ELSE
        LET change == calculate_change(mean_of(b, base), mean_of(c, curr)) IN
        [name |-> name, status |-> classify(change, th), baseline |-> base,
         current |-> curr, change_percent |-> change]

\* lines 66-98: the record made for one name
comparison(name, base, curr, b, c, th) ==
    IF base = None THEN
        [name |-> name, status |-> "new", baseline |-> None,
         current |-> curr, change_percent |-> 0]
    ELSE IF curr = None THEN
        [name |-> name, status |-> "removed", baseline |-> base,
         current |-> None, change_percent |-> 0]
    ELSE
        LET change == calculate_change(mean_of(b, base), mean_of(c, curr)) IN
        [name |-> name, status |-> classify(change, th), baseline |-> base,
         current |-> curr, change_percent |-> change]

compare_benchmarks(b, c, th) ==
    LET baseline_benchmarks == by_name(b)
        current_benchmarks == by_name(c)
        all_names == (DOMAIN baseline_benchmarks) \cup (DOMAIN current_benchmarks)
        order == sorted(all_names)
    IN  [i \in 1..Len(order) |->
            comparison(order[i],
                       lookup(baseline_benchmarks, order[i]),
                       lookup(current_benchmarks, order[i]),
                       b, c, th)]

compare_benchmarks_raises(b, c) ==
    \/ by_name_raises(b)
    \/ by_name_raises(c)
    \/ LET bb == by_name(b)
           cb == by_name(c)
       IN  \E n \in (DOMAIN bb) \cap (DOMAIN cb) :
              calculate_change_raises(mean_value(b, bb[n]), mean_value(c, cb[n]))

(* ------------------------------------------------------------------ *)
(* generate_markdown                                                  *)
(* ------------------------------------------------------------------ *)

\* f"{change:.1f}" and f"{change:+.1f}" of an integral change
one_decimal(x) == ToString(x) \o ".0"
signed_one_decimal(x) == IF x >= 0 THEN "+" \o one_decimal(x) ELSE one_decimal(x)

\* format_duration of a mean_ns of the documents
duration_cell(m) == format_duration(Nano(m \div 1000000, m % 1000000))

count(comps, status) ==
    Cardinality({i \in DOMAIN comps : comps[i].status = status})

\* lines 139-165: the table row of one comparison
row(c, b_info, c_info) ==
    IF c.status = "new" THEN
        <<c.name, "-", duration_cell(mean_of(c_info, c.current)), "(new) NEW">>
    ELSE IF c.status = "removed" THEN
        <<c.name, duration_cell(mean_of(b_info, c.baseline)), "-",
          "(cross mark) REMOVED">>
    ELSE
        <<c.name,
          duration_cell(mean_of(b_info, c.baseline)),
          duration_cell(mean_of(c_info, c.current)),
          IF c.status = "regression" THEN
              "+" \o one_decimal(c.change_percent) \o "% (red circle) REGRESSION"
          ELSE IF c.status = "improvement" THEN
              one_decimal(c.change_percent) \o "% (green circle)"
          ELSE
              signed_one_decimal(c.change_percent) \o "% ">>

\* AttributeError of None.get, or TypeError of format_duration
row_raises(c, b_info, c_info) ==
    IF c.status = "new" THEN
        c.current = None \/ format_duration_raises(mean_value(c_info, c.current))
    ELSE IF c.status = "removed" THEN
        c.baseline = None \/ format_duration_raises(mean_value(b_info, c.baseline))
    ELSE
        \/ c.baseline = None
        \/ c.current = None
        \/ format_duration_raises(mean_value(b_info, c.baseline))
        \/ format_duration_raises(mean_value(c_info, c.current))

generate_markdown_raises(comps, b_info, c_info) ==
    \E i \in DOMAIN comps : row_raises(comps[i], b_info, c_info)

summary(comps) ==
    <<  <<"### Summary">>, <<"">>  >>
    \o (IF count(comps, "regression") > 0
        THEN << <<"(red circle) **" \o ToString(count(comps, "regression"))
                  \o " regressions detected**">> >>
        ELSE <<>>)
    \o (IF count(comps, "improvement") > 0
        THEN << <<"(green circle) **" \o ToString(count(comps, "improvement"))
                  \o " improvements**">> >>
        ELSE <<>>)
    \o << <<"(white circle) " \o ToString(count(comps, "unchanged"))
            \o " unchanged">> >>
    \o (IF count(comps, "new") > 0
        THEN << <<"(new) " \o ToString(count(comps, "new"))
                  \o " new benchmarks">> >>
        ELSE <<>>)
    \o << <<"">> >>

table_head ==
    <<  <<"### Details">>, <<"">>,
        <<"| Benchmark | Baseline | Current | Change |">>,
        <<"|-----------|----------|---------|--------|">>  >>

rows_reversed(comps, b_info, c_info) ==
    [i \in 1..Len(comps) |-> row(comps[Len(comps) + 1 - i], b_info, c_info)]

\* lines 138-165: one row per comparison, in list order
rows(comps, b_info, c_info) ==
    [i \in 1..Len(comps) |-> row(comps[i], b_info, c_info)]

footer(b_info, c_info) ==
    <<  <<"">>, <<"<details>">>, <<"<summary>Run Information</summary>">>, <<"">>,
        <<"- Baseline: " \o get(b_info, "version", "unknown") \o " @ "
            \o get(b_info, "timestamp", "unknown")>>,
        <<"- Current: " \o get(c_info, "version", "unknown") \o " @ "
            \o get(c_info, "timestamp", "unknown")>>,
        <<"">>, <<"</details>">>  >>

generate_markdown(comps, b_info, c_info) ==
    summary(comps) \o table_head \o rows(comps, b_info, c_info)
        \o footer(b_info, c_info)

\* the table rows of a report: its four-cell lines
table_rows(rep) == SelectSeq(rep, LAMBDA line : Len(line) = 4)

(* ------------------------------------------------------------------ *)
(* The pipeline: compare_benchmarks, then generate_markdown           *)
(* ------------------------------------------------------------------ *)

BenchmarkLists(n) ==
    {Some(l) : l \in [1..n -> Entries]} \cup (IF n = 0 THEN {Missing} ELSE {})

File(status, doc) == [status |-> status, doc |-> doc]

EmptyDoc == Doc(Missing, Missing, Missing)

Idle ==
    /\ baseline_file = File("ok", EmptyDoc) /\ current_file = File("ok", EmptyDoc)
    /\ fail_on_regression = FALSE
    /\ output_file = None /\ stdout = <<>> /\ r = 0 /\ exit_code = None

IdleFormat == ns = Nano(0, 0) /\ text = ""

Init ==
    /\ pc = "compare"
    /\ \E nb \in 0..MaxEntries : \E nc \in 0..(MaxEntries - nb) :
         \E bl \in BenchmarkLists(nb) : \E cl \in BenchmarkLists(nc) :
            /\ baseline = Doc(bl, Missing, Some("t0"))
            /\ current = Doc(cl, Some("1.1"), Missing)
    /\ threshold \in Thresholds
    /\ comparisons = <<>> /\ report = <<>>
    /\ Idle /\ IdleFormat

Compare ==
    /\ pc = "compare"
    /\ comparisons' = compare_benchmarks(baseline, current, threshold)
    /\ pc' = "render"
    /\ UNCHANGED <<baseline_file, current_file, baseline, current, threshold,
                   fail_on_regression, report, output_file, stdout, r,
                   exit_code, ns, text>>

Render ==
    /\ pc = "render"
    /\ IF generate_markdown_raises(comparisons, baseline, current)
       THEN pc' = "raised" /\ UNCHANGED report
       ELSE /\ report' = generate_markdown(comparisons, baseline, current)
            /\ pc' = "rendered"
    /\ UNCHANGED <<baseline_file, current_file, baseline, current, threshold,
                   fail_on_regression, comparisons, output_file, stdout, r,
                   exit_code, ns, text>>

Next == Compare \/ Render

Spec == Init /\ [][Next]_vars

(* ------------------------------------------------------------------ *)
(* main                                                               *)
(* ------------------------------------------------------------------ *)

OneEntry(n, v) == Some(<<Entry(n, Some(v))>>)

SampleDocs ==
    { EmptyDoc,
      Doc(OneEntry(Some("a"), JNumber(4)), Some("1.0"), Some("t0")),
      Doc(OneEntry(Some("a"), JNumber(0)), Some("1.0"), Some("t0")),
      Doc(OneEntry(Some("a"), JString), Some("1.1"), Missing),
      Doc(OneEntry(Missing, JNumber(4)), Some("1.1"), Some("t1")),
      Doc(Some(<<Entry(Some("a"), Some(JNumber(4))),
                 Entry(Some("B"), Some(JNumber(4)))>>), Some("1.0"), Some("t0")),
      Doc(Some(<<Entry(Some("B"), Some(JNumber(8))),
                 Entry(Some("a"), Some(JNumber(8)))>>), Some("1.1"), Some("t1")) }

SampleFiles ==
    {File("ok", d) : d \in SampleDocs}
        \cup {File("unreadable", EmptyDoc), File("invalid json", EmptyDoc)}

MainThresholds == {10, -50}

\* open() or json.load() raising
load_results_raises(file) == file.status # "ok"

load_results(file) == file.doc

\* [c for c in comparisons if c['status'] == 'regression']
regressions(comps) == SelectSeq(comps, LAMBDA c : c.status = "regression")

regression_line(c) == "  - " \o c.name \o ": +" \o one_decimal(c.change_percent) \o "%"

InitMain ==
    /\ pc = "load_baseline"
    /\ baseline_file \in SampleFiles
    /\ current_file \in SampleFiles
    /\ threshold \in MainThresholds
    /\ fail_on_regression \in BOOLEAN
    /\ baseline = EmptyDoc /\ current = EmptyDoc
    /\ comparisons = <<>> /\ report = <<>>
    /\ output_file = None /\ stdout = <<>> /\ r = 0 /\ exit_code = None
    /\ IdleFormat

\* an exception nothing catches: traceback, exit status 1
Raise == pc' = "done" /\ exit_code' = Some(1)

MainLoadBaseline ==
    /\ pc = "load_baseline"
    /\ IF load_results_raises(baseline_file)
       THEN Raise /\ UNCHANGED baseline
       ELSE /\ baseline' = load_results(baseline_file)
            /\ pc' = "load_current"
            /\ UNCHANGED exit_code
    /\ UNCHANGED <<baseline_file, current_file, current, threshold,
                   fail_on_regression, comparisons, report, output_file,
                   stdout, r, ns, text>>

MainLoadCurrent ==
    /\ pc = "load_current"
    /\ IF load_results_raises(current_file)
       THEN Raise /\ UNCHANGED current
       ELSE /\ current' = load_results(current_file)
            /\ pc' = "compare_benchmarks"
            /\ UNCHANGED exit_code
    /\ UNCHANGED <<baseline_file, current_file, baseline, threshold,
                   fail_on_regression, comparisons, report, output_file,
                   stdout, r, ns, text>>

MainCompare ==
    /\ pc = "compare_benchmarks"
    /\ IF compare_benchmarks_raises(baseline, current)
       THEN Raise /\ UNCHANGED comparisons
       ELSE /\ comparisons' = compare_benchmarks(baseline, current, threshold)
            /\ pc' = "generate_markdown"
            /\ UNCHANGED exit_code
    /\ UNCHANGED <<baseline_file, current_file, baseline, current, threshold,
                   fail_on_regression, report, output_file, stdout, r, ns, text>>

MainRender ==
    /\ pc = "generate_markdown"
    /\ IF generate_markdown_raises(comparisons, baseline, current)
       THEN Raise /\ UNCHANGED report
       ELSE /\ report' = generate_markdown(comparisons, baseline, current)
            /\ pc' = "open"
            /\ UNCHANGED exit_code
    /\ UNCHANGED <<baseline_file, current_file, baseline, current, threshold,
                   fail_on_regression, comparisons, output_file, stdout, r,
                   ns, text>>

\* open(args.output, 'w'): creates or truncates the file, or raises OSError
MainOpen ==
    /\ pc = "open"
    /\ \/ /\ output_file' = Some(<<>>)
          /\ pc' = "write"
          /\ UNCHANGED exit_code
       \/ Raise /\ UNCHANGED output_file
    /\ UNCHANGED <<baseline_file, current_file, baseline, current, threshold,
                   fail_on_regression, comparisons, report, stdout, r, ns, text>>

\* f.write(report) and the close that flushes it: all of the report reaches
\* the file, or an OSError leaves the part written before it
MainWrite ==
    /\ pc = "write"
    /\ \/ /\ output_file' = Some(report)
          /\ pc' = "print_written"
          /\ UNCHANGED exit_code
       \/ /\ \E k \in 0..(Len(report) - 1) :
                output_file' = Some(SubSeq(report, 1, k))
          /\ Raise
    /\ UNCHANGED <<baseline_file, current_file, baseline, current, threshold,
                   fail_on_regression, comparisons, report, stdout, r, ns, text>>

MainPrintWritten ==
    /\ pc = "print_written"
    /\ stdout' = Append(stdout, "Comparison report written to comparison.md")
    /\ pc' = "check_regressions"
    /\ UNCHANGED <<baseline_file, current_file, baseline, current, threshold,
                   fail_on_regression, comparisons, report, output_file, r,
                   exit_code, ns, text>>

fails_flag_only(comps, flag) == flag

\* line 207: if regressions and args.fail_on_regression
fails(comps, flag) == regressions(comps) # <<>> /\ flag

\* lines 206-208; falling off the end of main is exit status 0
MainCheckRegressions ==
    /\ pc = "check_regressions"
    /\ IF fails(comparisons, fail_on_regression)
       THEN /\ stdout' = Append(stdout,
                   "\n(warning)  " \o ToString(Len(regressions(comparisons)))
                       \o " regressions detected!")
            /\ r' = 1
            /\ pc' = "print_regressions"
            /\ UNCHANGED exit_code
       ELSE /\ pc' = "done"
            /\ exit_code' = Some(0)
            /\ UNCHANGED <<stdout, r>>
    /\ UNCHANGED <<baseline_file, current_file, baseline, current, threshold,
                   fail_on_regression, comparisons, report, output_file, ns, text>>

\* lines 209-210, one iteration
MainPrintRegression ==
    /\ pc = "print_regressions"
    /\ r <= Len(regressions(comparisons))
    /\ stdout' = Append(stdout, regression_line(regressions(comparisons)[r]))
    /\ r' = r + 1
    /\ UNCHANGED <<pc, baseline_file, current_file, baseline, current, threshold,
                   fail_on_regression, comparisons, report, output_file,
                   exit_code, ns, text>>

\* line 211: sys.exit(1)
MainExit ==
    /\ pc = "print_regressions"
    /\ r > Len(regressions(comparisons))
    /\ pc' = "done"
    /\ exit_code' = Some(1)
    /\ UNCHANGED <<baseline_file, current_file, baseline, current, threshold,
                   fail_on_regression, comparisons, report, output_file, stdout,
                   r, ns, text>>

NextMain ==
    \/ MainLoadBaseline
    \/ MainLoadCurrent
    \/ MainCompare
    \/ MainRender
    \/ MainOpen
    \/ MainWrite
    \/ MainPrintWritten
    \/ MainCheckRegressions
    \/ MainPrintRegression
    \/ MainExit

SpecMain == InitMain /\ [][NextMain]_vars

(* ------------------------------------------------------------------ *)
(* format_duration on its own                                         *)
(* ------------------------------------------------------------------ *)

FormatHi == {0, 1, 2, 999, 1000, 2999, 3000}

FormatLo == {0, 1, 999, 1000, 1001, 1500, 500000, 999994, 999999}

InitFormat ==
    /\ pc = "format_duration"
    /\ \E hi \in FormatHi : \E lo \in FormatLo :
          /\ ~IsTie(Nano(hi, lo))
          /\ ns = Nano(hi, lo)
    /\ text = ""
    /\ baseline = EmptyDoc /\ current = EmptyDoc /\ threshold = 10
    /\ comparisons = <<>> /\ report = <<>>
    /\ Idle

Format ==
    /\ pc = "format_duration"
    /\ text' = format_duration(ns)
    /\ pc' = "formatted"
    /\ UNCHANGED <<baseline_file, current_file, baseline, current, threshold,
                   fail_on_regression, comparisons, report, output_file, stdout,
                   r, exit_code, ns>>

NextFormat == Format

SpecFormat == InitFormat /\ [][NextFormat]_vars

(* ------------------------------------------------------------------ *)
(* Properties                                                         *)
(* ------------------------------------------------------------------ *)

\* the names a document's benchmark list carries
names_of(doc) ==
    {benchmarks_of(doc)[i].name[1] : i \in 1..Len(benchmarks_of(doc))}

\* positions of the entries called n
positions(doc, n) ==
    {i \in 1..Len(benchmarks_of(doc)) : benchmarks_of(doc)[i].name = Some(n)}

last_position(doc, n) ==
    CHOOSE i \in positions(doc, n) : \A j \in positions(doc, n) : j <= i

\* compare_benchmarks has returned (pipeline run)
Compared == pc \in {"render", "rendered", "raised"}

in_both(c) == c.baseline # None /\ c.current # None

\* C1: the records' names are exactly the union of the baseline names and
\* the current names, each name in exactly one record, and the records are
\* in ascending lexicographic (code point) order of name.
C1_UnionOnceSorted ==
    Compared =>
        /\ {comparisons[i].name : i \in DOMAIN comparisons}
              = names_of(baseline) \cup names_of(current)
        /\ \A i, j \in DOMAIN comparisons :
              comparisons[i].name = comparisons[j].name => i = j
        /\ \A i, j \in DOMAIN comparisons :
              i < j => str_lt(comparisons[i].name, comparisons[j].name)

C1_Witness ==
    /\ pc = "render"
    /\ Len(comparisons) = Cardinality(Names)
    /\ names_of(baseline) \ names_of(current) # {}
    /\ names_of(current) \ names_of(baseline) # {}
    /\ benchmarks_of(current)[1].name = Some("ab")

\* C2: for a benchmark present in both runs the status is regression when
\* change_percent > threshold, improvement when change_percent < -threshold
\* and unchanged otherwise; a change_percent equal to threshold or to
\* -threshold is unchanged.
C2_StrictThresholds ==
    Compared =>
        \A i \in DOMAIN comparisons :
            LET c == comparisons[i] IN
            in_both(c) =>
                /\ c.change_percent > threshold => c.status = "regression"
                /\ c.change_percent < -threshold => c.status = "improvement"
                /\ (~(c.change_percent > threshold)
                      /\ ~(c.change_percent < -threshold)) => c.status = "unchanged"
                /\ (c.change_percent = threshold \/ c.change_percent = -threshold)
                      => c.status = "unchanged"

\* C2, for a threshold that is a magnitude (>= 0): the same statement.
C2_StrictThresholdsOfMagnitude ==
    (Compared /\ threshold >= 0) =>
        \A i \in DOMAIN comparisons :
            LET c == comparisons[i] IN
            in_both(c) =>
                /\ c.change_percent > threshold => c.status = "regression"
                /\ c.change_percent < -threshold => c.status = "improvement"
                /\ (~(c.change_percent > threshold)
                      /\ ~(c.change_percent < -threshold)) => c.status = "unchanged"
                /\ (c.change_percent = threshold \/ c.change_percent = -threshold)
                      => c.status = "unchanged"

\* C3: a name only in current gives status new, change_percent 0, no
\* baseline reference and a current reference; a name only in baseline gives
\* status removed, change_percent 0, no current reference and a baseline
\* reference; every record of another status has both references, and
\* generate_markdown raises on no record.
C3_NewRemovedReferences ==
    Compared =>
        /\ \A i \in DOMAIN comparisons :
            LET c == comparisons[i] IN
            /\ (c.name \in names_of(current) \ names_of(baseline)) =>
                  /\ c.status = "new" /\ c.change_percent = 0
                  /\ c.baseline = None /\ c.current # None
            /\ (c.name \in names_of(baseline) \ names_of(current)) =>
                  /\ c.status = "removed" /\ c.change_percent = 0
                  /\ c.current = None /\ c.baseline # None
            /\ c.status \notin {"new", "removed"} => in_both(c)
        /\ ~generate_markdown_raises(comparisons, baseline, current)
        /\ pc # "raised"

C3_Witness ==
    /\ pc = "rendered"
    /\ \E i, j \in DOMAIN comparisons :
          /\ comparisons[i].status = "new"
          /\ comparisons[i].current = Some(2)
          /\ comparisons[j].status = "removed"
          /\ comparisons[j].baseline = Some(1)

\* C4: a benchmark in both runs whose baseline mean_ns is 0 or missing has
\* change_percent 0 and status unchanged, whatever current.mean_ns and the
\* threshold are.
C4_ZeroBaselineUnchanged ==
    Compared =>
        \A i \in DOMAIN comparisons :
            LET c == comparisons[i] IN
            (in_both(c) /\ mean_of(baseline, c.baseline) = 0) =>
                c.change_percent = 0 /\ c.status = "unchanged"

\* C4, for a threshold that is a magnitude (>= 0).
C4_ZeroBaselineUnchangedOfMagnitude ==
    (Compared /\ threshold >= 0) =>
        \A i \in DOMAIN comparisons :
            LET c == comparisons[i] IN
            (in_both(c) /\ mean_of(baseline, c.baseline) = 0) =>
                c.change_percent = 0 /\ c.status = "unchanged"

\* C7: whatever the threshold, a regression has current.mean_ns > baseline
\* .mean_ns and an improvement has current.mean_ns < baseline.mean_ns.
C7_RegressionIsSlower ==
    Compared =>
        \A i \in DOMAIN comparisons :
            LET c == comparisons[i] IN
            /\ c.status = "regression" =>
                  mean_of(current, c.current) > mean_of(baseline, c.baseline)
            /\ c.status = "improvement" =>
                  mean_of(current, c.current) < mean_of(baseline, c.baseline)

\* C7, for a threshold that is a magnitude (>= 0).
C7_RegressionIsSlowerOfMagnitude ==
    (Compared /\ threshold >= 0) =>
        \A i \in DOMAIN comparisons :
            LET c == comparisons[i] IN
            /\ c.status = "regression" =>
                  mean_of(current, c.current) > mean_of(baseline, c.baseline)
            /\ c.status = "improvement" =>
                  mean_of(current, c.current) < mean_of(baseline, c.baseline)

\* C8: when a list holds several entries of one name the record of that name
\* references the last of them in list order, its change_percent and status
\* come from that entry's mean_ns, and the name has exactly one record.
C8_LastDuplicateWins ==
    Compared =>
        /\ \A i \in DOMAIN comparisons :
            LET c == comparisons[i] IN
            /\ c.name \in names_of(baseline) =>
                  c.baseline = Some(last_position(baseline, c.name))
            /\ c.name \in names_of(current) =>
                  c.current = Some(last_position(current, c.name))
            /\ (c.name \in names_of(baseline) \cap names_of(current)) =>
                  LET bm == get(benchmarks_of(baseline)[last_position(baseline, c.name)],
                                "mean_ns", JNumber(0)).n
                      cm == get(benchmarks_of(current)[last_position(current, c.name)],
                                "mean_ns", JNumber(0)).n
                  IN  /\ c.change_percent = calculate_change(bm, cm)
                      /\ c.status = classify(calculate_change(bm, cm), threshold)
        /\ \A n \in names_of(baseline) \cup names_of(current) :
              Cardinality({i \in DOMAIN comparisons : comparisons[i].name = n}) = 1

C8_Witness ==
    /\ pc = "render"
    /\ \E n \in Names :
          /\ Cardinality(positions(baseline, n)) = 2
          /\ Cardinality(positions(current, n)) = 1
          /\ \E i, j \in positions(baseline, n) :
                /\ i < j
                /\ benchmarks_of(baseline)[i].mean_ns = Some(JNumber(8))
                /\ benchmarks_of(baseline)[j].mean_ns = Some(JNumber(4))
          /\ \E k \in DOMAIN comparisons :
                /\ comparisons[k].name = n
                /\ comparisons[k].status = "regression"

\* C10: the report has one table row per comparison, in the order of the
\* comparisons; a row's baseline column is "-" exactly when the record has
\* no baseline reference (status new), its current column is "-" exactly
\* when it has no current reference (status removed), and the change column
\* of a new or removed row is the literal marker alone.
C10_OneRowPerRecord ==
    pc = "rendered" =>
        LET rws == table_rows(report) IN
        /\ Len(rws) = Len(comparisons)
        /\ \A i \in DOMAIN comparisons :
            LET c == comparisons[i] IN
            /\ rws[i][1] = c.name
            /\ (rws[i][2] = "-") <=> (c.baseline = None)
            /\ (rws[i][2] = "-") <=> (c.status = "new")
            /\ (rws[i][3] = "-") <=> (c.current = None)
            /\ (rws[i][3] = "-") <=> (c.status = "removed")
            /\ c.status = "new" => rws[i][4] = "(new) NEW"
            /\ c.status = "removed" => rws[i][4] = "(cross mark) REMOVED"

C10_Witness ==
    /\ pc = "rendered"
    /\ Len(table_rows(report)) = Cardinality(Names)
    /\ \E i, j \in DOMAIN comparisons :
          /\ i < j
          /\ comparisons[i].status = "removed"
          /\ comparisons[j].status = "new"

(* main *)

Written == output_file = Some(report) /\ report # <<>>

printed(line) == \E i \in DOMAIN stdout : stdout[i] = line

\* C5: when both inputs loaded and the report was written, main's exit code
\* is non-zero if and only if the flag is set and some record is a
\* regression, and then the report is in the file and the name and
\* percentage of every regression have been printed; with the flag unset the
\* exit code is 0.
C5_ExitCode ==
    (pc = "done" /\ Written) =>
        /\ (exit_code # Some(0))
              <=> (fail_on_regression /\ regressions(comparisons) # <<>>)
        /\ exit_code # Some(0) =>
              \A i \in DOMAIN comparisons :
                  comparisons[i].status = "regression" =>
                      printed(regression_line(comparisons[i]))
        /\ ~fail_on_regression => exit_code = Some(0)

C5_Witness ==
    /\ pc = "done" /\ Written
    /\ exit_code = Some(1)
    /\ Len(regressions(comparisons)) > 1
    /\ printed("  - B: +100.0%") /\ printed("  - a: +100.0%")

\* C6: a run ends with the report written in full, or with the destination
\* never opened: a run that fails leaves no partial or empty report, and a
\* failure of a load, of the comparison or of the rendering leaves the
\* destination untouched.
C6_AllOrNothing ==
    pc = "done" =>
        /\ output_file = None \/ Written
        /\ exit_code = Some(0) => Written
        /\ (\/ load_results_raises(baseline_file)
            \/ load_results_raises(current_file)
            \/ compare_benchmarks_raises(baseline, current)
            \/ generate_markdown_raises(comparisons, baseline, current))
              => output_file = None

\* C6, the part on failures before the write: a failed load, comparison or
\* rendering leaves the destination never opened and ends in a failure.
C6_NoOpenAfterEarlyFailure ==
    (pc = "done" /\ report = <<>>) =>
        output_file = None /\ exit_code = Some(1)

(* format_duration *)

\* ns >= hi0 * 10^6
at_least_millions(n, hi0) == n.hi >= hi0

====
